---- MODULE Spec2Model ----
(***************************************************************************)
(* A model of the langchain-cicd repository:                               *)
(*   - main.py: CiscoAIDefenseGuardrails (validate_input, validate_output, *)
(*     wrap_llm_call) and the regular expressions it searches for;         *)
(*   - .github/scripts/run_agent.py: run_agent and main;                   *)
(*   - .github/scripts/lib/git.py: get_git_context and its resolvers;      *)
(*   - .github/scripts/lib/mcp.py: get_mcp_config;                         *)
(*   - scripts/mcp_wrapper.py: main and run_tool.                          *)
(* Each program has its own specification over its own variables; the      *)
(* variables of the other programs stay at their initial value.            *)
(***************************************************************************)
EXTENDS Integers, Sequences, FiniteSets, TLC

VARIABLES
    \* main.py
    self,       \* the CiscoAIDefenseGuardrails object (its attributes)
    gpc,        \* where the caller of the guardrails is
    frame,      \* the locals of the wrap_llm_call in progress
    trace,      \* the steps of the most recent call
    last,       \* the most recent completed call and what it returned
    repeat,     \* whether that call repeated the call before it
    logs,       \* the logger records of the most recent call
    \* .github/scripts/run_agent.py
    apc, aenv, aargs, afs, alocals, asession, aresult, aexit, asteps,
    \* .github/scripts/lib/git.py
    gitpc, genv, gargs, grepo, gctx, gconsulted,
    \* scripts/mcp_wrapper.py
    wpc, wargv, wfs, wsteps, wstdout, wstderr, wexit

guardVars == <<self, gpc, frame, trace, last, repeat, logs>>
agentVars == <<apc, aenv, aargs, afs, alocals, asession, aresult, aexit, asteps>>
gitVars == <<gitpc, genv, gargs, grepo, gctx, gconsulted>>
wrapperVars == <<wpc, wargv, wfs, wsteps, wstdout, wstderr, wexit>>
vars == <<guardVars, agentVars, gitVars, wrapperVars>>

\* a step of one program leaves the variables of the others alone
GuardOnly == UNCHANGED <<agentVars, gitVars, wrapperVars>>

AgentOnly == UNCHANGED <<guardVars, gitVars, wrapperVars>>

GitOnly == UNCHANGED <<guardVars, agentVars, wrapperVars>>

WrapperOnly == UNCHANGED <<guardVars, agentVars, gitVars>>

(***************************************************************************)
(* Text.  A Python str is a sequence of one-character strings.  A text is  *)
(* [chars, pad]: the characters chars followed by a run of pad copies of   *)
(* PadChar, so that a text longer than max_length is a small value.        *)
(* PadChar is in none of the patterns and in none of the blocked topics,   *)
(* is no word character and is its own lower case: no match contains it,   *)
(* and re.search and the `in` operator see the same on chars as on the     *)
(* whole text.  (The only \b next to the run is at the end of chars, where *)
(* a non-word character and the end of the string are the same.)           *)
(***************************************************************************)
PadChar == "!"

Text(cs, n) == [chars |-> cs, pad |-> n]

Str(cs) == Text(cs, 0)

\* len(s)
PyLen(t) == Len(t.chars) + t.pad

UpperCase == <<"A","B","C","D","E","F","G","H","I","J","K","L","M",
               "N","O","P","Q","R","S","T","U","V","W","X","Y","Z">>

LowerCase == <<"a","b","c","d","e","f","g","h","i","j","k","l","m",
               "n","o","p","q","r","s","t","u","v","w","x","y","z">>

Digit == {"0","1","2","3","4","5","6","7","8","9"}

Upper == {UpperCase[i] : i \in DOMAIN UpperCase}

Lower == {LowerCase[i] : i \in DOMAIN LowerCase}

\* \s
Space == {" ", "\t", "\n", "\r", "\f"}

\* \w
WordChar == Upper \cup Lower \cup Digit \cup {"_"}

\* str.lower() of one character
LowerChar(c) ==
    IF c \in Upper
    THEN LowerCase[CHOOSE i \in DOMAIN UpperCase : UpperCase[i] = c]
    ELSE c

\* str.lower()
PyLower(t) == Text([i \in DOMAIN t.chars |-> LowerChar(t.chars[i])], t.pad)

\* `needle in hay` for two sequences of characters
Contains(hay, needle) ==
    \E i \in 0..(Len(hay) - Len(needle)) :
        \A j \in 1..Len(needle) : hay[i + j] = needle[j]

(***************************************************************************)
(* Regular expressions, as the re module matches them.  A pattern is a     *)
(* tree; Ends(p, s, i, ic) is the set of offsets at which a match of p     *)
(* that starts at offset i of s can end; ic is re.IGNORECASE.  re.search   *)
(* finds a match iff some start has an end, whatever the order in which    *)
(* the backtracking matcher tries them (these patterns have no             *)
(* backreference and no lookaround, and greedy and lazy repeats differ     *)
(* only in which match is found).                                          *)
(***************************************************************************)
Ch(S) == [k |-> "set", s |-> S]

Cat(xs) == [k |-> "cat", xs |-> xs]

Alt(xs) == [k |-> "alt", xs |-> xs]

\* x{lo,hi}; hi = -1 is no upper limit
Rep(x, lo, hi) == [k |-> "rep", x |-> x, lo |-> lo, hi |-> hi]

Plus(x) == Rep(x, 1, -1)

Star(x) == Rep(x, 0, -1)

Opt(x) == Rep(x, 0, 1)

\* \b
WordB == [k |-> "wb"]

\* a literal string
Lit(cs) == Cat([i \in DOMAIN cs |-> Ch({cs[i]})])

IsWordAt(s, i) == i >= 1 /\ i <= Len(s) /\ s[i] \in WordChar

CharMatches(c, S, ic) ==
    IF ic THEN LowerChar(c) \in {LowerChar(x) : x \in S} ELSE c \in S

RECURSIVE Ends(_, _, _, _)
RECURSIVE CatEnds(_, _, _, _, _)
RECURSIVE RepEnds(_, _, _, _, _, _)

Ends(p, s, i, ic) ==
    CASE p.k = "set" ->
            IF i < Len(s) /\ CharMatches(s[i + 1], p.s, ic) THEN {i + 1} ELSE {}
      [] p.k = "wb" ->
            IF IsWordAt(s, i) # IsWordAt(s, i + 1) THEN {i} ELSE {}
      [] p.k = "cat" -> CatEnds(p.xs, 1, s, {i}, ic)
      [] p.k = "alt" -> UNION {Ends(p.xs[n], s, i, ic) : n \in DOMAIN p.xs}
      [] p.k = "rep" -> RepEnds(p.x, p.lo, p.hi, s, {i}, ic)

\* the ends of xs[n], xs[n+1], ... matched in a row from any offset of from
CatEnds(xs, n, s, from, ic) ==
    IF n > Len(xs) \/ from = {}
    THEN from
    ELSE CatEnds(xs, n + 1, s,
                 UNION {Ends(xs[n], s, i, ic) : i \in from}, ic)

\* the ends of lo to hi matches of x in a row from any offset of from
RepEnds(x, lo, hi, s, from, ic) ==
    LET step == UNION {Ends(x, s, i, ic) : i \in from}
    IN  IF from = {} THEN {}
        ELSE IF lo > 0
        THEN RepEnds(x, lo - 1, IF hi = -1 THEN -1 ELSE hi - 1, s, step, ic)
        ELSE IF hi = 0 THEN from
        ELSE from \cup RepEnds(x, 0, IF hi = -1 THEN -1 ELSE hi - 1, s,
                               step \ from, ic)

\* re.search(pattern, string, flags) is not None
Search(p, t, ic) ==
    \E i \in 0..Len(t.chars) : Ends(p, t.chars, i, ic) # {}

(***************************************************************************)
(* The class attributes of CiscoAIDefenseGuardrails: each pattern with its  *)
(* source text (src, which the violation message quotes) and its tree.      *)
(***************************************************************************)
\* patterns for detecting potentially malicious inputs
INJECTION_PATTERNS == <<
    [src |-> "ignore\\s+(previous|above|all)\\s+instructions",
     re |-> Cat(<<Lit(<<"i","g","n","o","r","e">>), Plus(Ch(Space)), Alt(<<Lit(<<"p","r","e","v","i","o","u","s">>), Lit(<<"a","b","o","v","e">>), Lit(<<"a","l","l">>)>>), Plus(Ch(Space)), Lit(<<"i","n","s","t","r","u","c","t","i","o","n","s">>)>>)],
    [src |-> "disregard\\s+(your|the)\\s+(instructions|rules|guidelines)",
     re |-> Cat(<<Lit(<<"d","i","s","r","e","g","a","r","d">>), Plus(Ch(Space)), Alt(<<Lit(<<"y","o","u","r">>), Lit(<<"t","h","e">>)>>), Plus(Ch(Space)), Alt(<<Lit(<<"i","n","s","t","r","u","c","t","i","o","n","s">>), Lit(<<"r","u","l","e","s">>), Lit(<<"g","u","i","d","e","l","i","n","e","s">>)>>)>>)],
    [src |-> "you\\s+are\\s+now\\s+(a|an)\\s+",
     re |-> Cat(<<Lit(<<"y","o","u">>), Plus(Ch(Space)), Lit(<<"a","r","e">>), Plus(Ch(Space)), Lit(<<"n","o","w">>), Plus(Ch(Space)), Alt(<<Lit(<<"a">>), Lit(<<"a","n">>)>>), Plus(Ch(Space))>>)],
    [src |-> "pretend\\s+(you\\s+are|to\\s+be)",
     re |-> Cat(<<Lit(<<"p","r","e","t","e","n","d">>), Plus(Ch(Space)), Alt(<<Cat(<<Lit(<<"y","o","u">>), Plus(Ch(Space)), Lit(<<"a","r","e">>)>>), Cat(<<Lit(<<"t","o">>), Plus(Ch(Space)), Lit(<<"b","e">>)>>)>>)>>)],
    [src |-> "act\\s+as\\s+(if|a|an)",
     re |-> Cat(<<Lit(<<"a","c","t">>), Plus(Ch(Space)), Lit(<<"a","s">>), Plus(Ch(Space)), Alt(<<Lit(<<"i","f">>), Lit(<<"a">>), Lit(<<"a","n">>)>>)>>)],
    [src |-> "new\\s+instructions:",
     re |-> Cat(<<Lit(<<"n","e","w">>), Plus(Ch(Space)), Lit(<<"i","n","s","t","r","u","c","t","i","o","n","s",":">>)>>)],
    [src |-> "override\\s+(system|previous)",
     re |-> Cat(<<Lit(<<"o","v","e","r","r","i","d","e">>), Plus(Ch(Space)), Alt(<<Lit(<<"s","y","s","t","e","m">>), Lit(<<"p","r","e","v","i","o","u","s">>)>>)>>)],
    [src |-> "forget\\s+(everything|your\\s+instructions)",
     re |-> Cat(<<Lit(<<"f","o","r","g","e","t">>), Plus(Ch(Space)), Alt(<<Lit(<<"e","v","e","r","y","t","h","i","n","g">>), Cat(<<Lit(<<"y","o","u","r">>), Plus(Ch(Space)), Lit(<<"i","n","s","t","r","u","c","t","i","o","n","s">>)>>)>>)>>)],
    [src |-> "jailbreak",
     re |-> Lit(<<"j","a","i","l","b","r","e","a","k">>)],
    [src |-> "DAN\\s+mode",
     re |-> Cat(<<Lit(<<"D","A","N">>), Plus(Ch(Space)), Lit(<<"m","o","d","e">>)>>)]
>>

\* patterns for detecting sensitive data in outputs
SENSITIVE_DATA_PATTERNS == <<
    [src |-> "\\b[A-Za-z0-9._%+-]+@[A-Za-z0-9.-]+\\.[A-Z|a-z]{2,}\\b",
     re |-> Cat(<<WordB, Plus(Ch(Upper \cup Lower \cup Digit \cup {".","_","%","+","-"})), Lit(<<"@">>), Plus(Ch(Upper \cup Lower \cup Digit \cup {".","-"})), Lit(<<".">>), Rep(Ch(Upper \cup Lower \cup {"|"}), 2, -1), WordB>>)],
    [src |-> "\\b\\d{3}[-.]?\\d{3}[-.]?\\d{4}\\b",
     re |-> Cat(<<WordB, Rep(Ch(Digit), 3, 3), Opt(Ch({"-","."})), Rep(Ch(Digit), 3, 3), Opt(Ch({"-","."})), Rep(Ch(Digit), 4, 4), WordB>>)],
    [src |-> "\\b\\d{3}[-]?\\d{2}[-]?\\d{4}\\b",
     re |-> Cat(<<WordB, Rep(Ch(Digit), 3, 3), Opt(Ch({"-"})), Rep(Ch(Digit), 2, 2), Opt(Ch({"-"})), Rep(Ch(Digit), 4, 4), WordB>>)],
    [src |-> "\\b(?:4[0-9]{12}(?:[0-9]{3})?|5[1-5][0-9]{14})\\b",
     re |-> Cat(<<WordB, Alt(<<Cat(<<Lit(<<"4">>), Rep(Ch(Digit), 12, 12), Opt(Rep(Ch(Digit), 3, 3))>>), Cat(<<Lit(<<"5">>), Ch({"1","2","3","4","5"}), Rep(Ch(Digit), 14, 14)>>)>>), WordB>>)],
    [src |-> "sk-[a-zA-Z0-9]{48}",
     re |-> Cat(<<Lit(<<"s","k","-">>), Rep(Ch(Lower \cup Upper \cup Digit), 48, 48)>>)],
    [src |-> "Bearer\\s+[a-zA-Z0-9\\-._~+/]+=*",
     re |-> Cat(<<Lit(<<"B","e","a","r","e","r">>), Plus(Ch(Space)), Plus(Ch(Lower \cup Upper \cup Digit \cup {"-",".","_","~","+","/"})), Star(Lit(<<"=">>))>>)]
>>

\* blocked topics for this translation application
BLOCKED_TOPICS == <<
    [src |-> "malware", chars |-> <<"m","a","l","w","a","r","e">>],
    [src |-> "exploit", chars |-> <<"e","x","p","l","o","i","t">>],
    [src |-> "hack", chars |-> <<"h","a","c","k">>],
    [src |-> "illegal", chars |-> <<"i","l","l","e","g","a","l">>],
    [src |-> "weapon", chars |-> <<"w","e","a","p","o","n">>]
>>

(***************************************************************************)
(* main.py: GuardrailAction, GuardrailResult, CiscoAIDefenseGuardrails.    *)
(***************************************************************************)
ALLOW == "allow"

BLOCK == "block"

LOG == "log"

\* None
None == [none |-> TRUE]

\* violations=None; the code never returns an empty list of violations
NoViolations == <<>>

GuardrailResult(passed, action, message, violations) ==
    [passed |-> passed, action |-> action, message |-> message,
     modified_content |-> None, violations |-> violations]

\* CiscoAIDefenseGuardrails.__init__
Guardrails(input_validation, output_validation, logging, strict_mode) ==
    [application_name |-> "langchain-cicd-app",
     description |-> "Application ensuring AI security",
     enable_input_validation |-> input_validation,
     enable_output_validation |-> output_validation,
     enable_logging |-> logging,
     strict_mode |-> strict_mode]

max_length == 10000

\* the messages appended for the patterns found, in the list's order
Detected(found, prefix) ==
    [i \in DOMAIN found |-> prefix \o found[i].src \o "'"]

\* the list violations of validate_input when it reaches `if violations`
InputViolations(user_input) ==
    LET input_lower == PyLower(user_input)
        Injected(p) == Search(p.re, input_lower, TRUE)
        Mentioned(t) == Contains(input_lower.chars, PyLower(Str(t.chars)).chars)
    IN  Detected(SelectSeq(INJECTION_PATTERNS, Injected),
                 "Potential prompt injection detected: pattern '")
        \o Detected(SelectSeq(BLOCKED_TOPICS, Mentioned), "Blocked topic detected: '")
        \o (IF PyLen(user_input) > max_length
            THEN <<"Input exceeds maximum length of " \o ToString(max_length)
                   \o " characters">>
            ELSE <<>>)

\* the list violations of validate_output when it reaches `if violations`
OutputViolations(llm_output) ==
    LET Leaked(p) == Search(p.re, llm_output, FALSE)
    IN  Detected(SelectSeq(SENSITIVE_DATA_PATTERNS, Leaked),
                 "Potential sensitive data detected: pattern '")

\* validate_input from `violations = []` on
check_input(this, user_input) ==
    LET violations == InputViolations(user_input)
    IN  IF violations # <<>>
        THEN IF this.strict_mode
             THEN GuardrailResult(FALSE, BLOCK,
                      "Input blocked due to security violations", violations)
             ELSE GuardrailResult(TRUE, LOG,
                      "Input allowed with logged violations", violations)
        ELSE GuardrailResult(TRUE, ALLOW, "Input validation passed", NoViolations)

\* a validate_input that checks whatever enable_input_validation is
validate_input_always(this, user_input) == check_input(this, user_input)

validate_input(this, user_input) ==
    IF ~this.enable_input_validation
    THEN GuardrailResult(TRUE, ALLOW, "Input validation disabled", NoViolations)
    ELSE check_input(this, user_input)

\* a check of the output that logs and allows whatever strict_mode is
check_output_lenient(this, llm_output) ==
    LET violations == OutputViolations(llm_output)
    IN  IF violations # <<>>
        THEN GuardrailResult(TRUE, LOG,
                 "Output allowed with logged violations", violations)
        ELSE GuardrailResult(TRUE, ALLOW, "Output validation passed", NoViolations)

\* validate_output from `violations = []` on
check_output(this, llm_output) ==
    LET violations == OutputViolations(llm_output)
    IN  IF violations # <<>>
        THEN IF this.strict_mode
             THEN GuardrailResult(FALSE, BLOCK,
                      "Output blocked due to sensitive data detection",
                      violations)
             ELSE GuardrailResult(TRUE, LOG,
                      "Output allowed with logged violations", violations)
        ELSE GuardrailResult(TRUE, ALLOW, "Output validation passed", NoViolations)

validate_output(this, llm_output) ==
    IF ~this.enable_output_validation
    THEN GuardrailResult(TRUE, ALLOW, "Output validation disabled", NoViolations)
    ELSE check_output(this, llm_output)

\* a logger record
LogRecord(level, msg, detail) == [level |-> level, msg |-> msg, detail |-> detail]

\* what validate_input logs
validate_input_logs(this, user_input) ==
    IF ~this.enable_input_validation \/ ~this.enable_logging
    THEN <<>>
    ELSE LET violations == InputViolations(user_input)
         IN  IF violations # <<>>
             THEN <<LogRecord("WARNING", "Input validation violations", violations)>>
             ELSE <<LogRecord("INFO", "Input validation passed", <<>>)>>

\* what validate_output logs
validate_output_logs(this, llm_output) ==
    IF ~this.enable_output_validation \/ ~this.enable_logging
    THEN <<>>
    ELSE LET violations == OutputViolations(llm_output)
         IN  IF violations # <<>>
             THEN <<LogRecord("WARNING", "Output validation violations", violations)>>
             ELSE <<LogRecord("INFO", "Output validation passed", <<>>)>>

\* a validate_input that turns strict_mode on once it has seen a violation
validate_input_attrs_latching(this, user_input) ==
    IF this.enable_input_validation /\ InputViolations(user_input) # <<>>
    THEN [this EXCEPT !.strict_mode = TRUE]
    ELSE this

\* the attributes of the object after validate_input: it assigns none
validate_input_attrs(this, user_input) == this

\* the attributes of the object after validate_output: it assigns none
validate_output_attrs(this, llm_output) == this

\* a dict is a function of its keys
EmptyDict == [key \in {} |-> None]

\* dict.get(key, default)
DictGet(d, key, default) == IF key \in DOMAIN d THEN d[key] ELSE default

\* a response of the chain: whether it has the attribute content, the
\* attribute, and str(response)
Response(has_content, content, str) ==
    [has_content |-> has_content, content |-> content, str |-> str]

\* response.content if hasattr(response, 'content') else str(response)
output_content(response) ==
    IF response.has_content THEN response.content ELSE response.str

\* a step 1 without its `return None`
wrap_after_input_unchecked(input_result) == "w_invoke"

\* wrap_llm_call after step 1: `if not input_result.passed: return None`
wrap_after_input(input_result) ==
    IF ~input_result.passed THEN "w_return_none" ELSE "w_invoke"

\* a step 3 without its `return None`
wrap_return_unchecked(response, output_result) == response

\* wrap_llm_call after step 3: what it returns
wrap_return(response, output_result) ==
    IF ~output_result.passed THEN None ELSE response

(***************************************************************************)
(* The callers of the guardrails.  The texts they pass: main's message,    *)
(* an injection in mixed case, a blocked topic inside a longer word, a     *)
(* text of exactly max_length characters, and one of max_length + 1 that   *)
(* also holds an injection pattern.                                        *)
(***************************************************************************)
Hello == Str(<<"H","e","l","l","o",","," ","h","o","w"," ","a","r","e"," ","y","o","u","?">>)

IgnoreAll == Str(<<"I","g","n","o","r","e"," ","A","L","L"," ","i","n","s","t","r","u","c","t","i","o","n","s">>)

Hackathon == Str(<<"h","a","c","k","a","t","h","o","n">>)

Longest == Text(<<>>, max_length)

TooLong == Text(<<"j","a","i","l","b","r","e","a","k">>, max_length - 8)

Inputs == {Hello, IgnoreAll, Hackathon, Longest, TooLong}

\* the input_dict of a wrap_llm_call: with an input, or without the key
InputDicts == {[input |-> t] : t \in {Hello, IgnoreAll, TooLong}} \cup {EmptyDict}

Konnichiwa == Str(<<"k","o","n","n","i","c","h","i","w","a">>)

Email == Str(<<"a","@","b",".","c","o">>)

Phone == Str(<<"5","5","5","-","1","2","3","-","4","5","6","7">>)

Ssn == Str(<<"1","2","3","-","4","5","-","6","7","8","9">>)

Bearer == Str(<<"B","e","a","r","e","r"," ","a","b","c","=">>)

Outputs == {Konnichiwa, Email, Phone, Ssn, Bearer}

\* what the chain can answer: messages with a content, a plain string, and
\* a message whose content is clean and whose str() is not
Responses ==
    {Response(TRUE, Email, Konnichiwa), Response(TRUE, Konnichiwa, Bearer),
     Response(FALSE, None, Konnichiwa), Response(FALSE, None, Phone)}

GuardInit ==
    /\ self \in {Guardrails(i, o, l, s) : i \in BOOLEAN, o \in BOOLEAN,
                                          l \in BOOLEAN, s \in BOOLEAN}
    /\ gpc = "idle"
    /\ frame = None
    /\ trace = <<>>
    /\ last = None
    /\ repeat = FALSE
    /\ logs = <<>>

\* a completed call: the method, its argument, the chain's response (None
\* when the chain gave none), whether the call raised, and what it returned
Call(op, arg, response, raised, ret) ==
    [op |-> op, arg |-> arg, response |-> response, raised |-> raised,
     ret |-> ret]

\* the same method called with the same argument, the chain behaving the same
SameCall(a, b) ==
    /\ a.op = b.op /\ a.arg = b.arg
    /\ a.response = b.response /\ a.raised = b.raised

\* a call completes
Completes(call) ==
    /\ last' = call
    /\ repeat' = (last # None /\ SameCall(last, call))

\* guardrails.validate_input(user_input)
ValidateInput(user_input) ==
    /\ gpc = "idle"
    /\ trace' = <<"validate_input">>
    /\ logs' = validate_input_logs(self, user_input)
    /\ Completes(Call("validate_input", user_input, None, FALSE,
                      validate_input(self, user_input)))
    /\ self' = validate_input_attrs(self, user_input)
    /\ UNCHANGED <<gpc, frame>>
    /\ GuardOnly

\* guardrails.validate_output(llm_output)
ValidateOutput(llm_output) ==
    /\ gpc = "idle"
    /\ trace' = <<"validate_output">>
    /\ logs' = validate_output_logs(self, llm_output)
    /\ Completes(Call("validate_output", llm_output, None, FALSE,
                      validate_output(self, llm_output)))
    /\ self' = validate_output_attrs(self, llm_output)
    /\ UNCHANGED <<gpc, frame>>
    /\ GuardOnly

\* guardrails.wrap_llm_call(chain, input_dict), to its first step
WrapStart(input_dict) ==
    /\ gpc = "idle"
    /\ frame' = [input_dict |-> input_dict,
                 user_input |-> DictGet(input_dict, "input", Str(<<>>)),
                 input_result |-> None, response |-> None]
    /\ trace' = <<>>
    /\ logs' = IF self.enable_logging
               THEN <<LogRecord("INFO",
                        "Processing request with AI Defense Guardrails", <<>>)>>
               ELSE <<>>
    /\ gpc' = "w_validate_input"
    /\ UNCHANGED <<self, last, repeat>>
    /\ GuardOnly

\* step 1: validate input
WrapValidateInput ==
    /\ gpc = "w_validate_input"
    /\ LET input_result == validate_input(self, frame.user_input)
       IN  /\ frame' = [frame EXCEPT !.input_result = input_result]
           /\ gpc' = wrap_after_input(input_result)
    /\ trace' = Append(trace, "validate_input")
    /\ logs' = logs \o validate_input_logs(self, frame.user_input)
    /\ self' = validate_input_attrs(self, frame.user_input)
    /\ UNCHANGED <<last, repeat>>
    /\ GuardOnly

\* `return None` of step 1
WrapBlockedAtInput ==
    /\ gpc = "w_return_none"
    /\ logs' = Append(logs, LogRecord("ERROR",
                   "Request blocked at input validation",
                   <<frame.input_result.message>>))
    /\ Completes(Call("wrap_llm_call", frame.input_dict, None, FALSE, None))
    /\ frame' = None
    /\ gpc' = "idle"
    /\ UNCHANGED <<self, trace>>
    /\ GuardOnly

\* step 2: chain.invoke(input_dict) returns
WrapInvoke(response) ==
    /\ gpc = "w_invoke"
    /\ frame' = [frame EXCEPT !.response = response]
    /\ trace' = Append(trace, "chain.invoke")
    /\ gpc' = "w_validate_output"
    /\ UNCHANGED <<self, last, repeat, logs>>
    /\ GuardOnly

\* step 2: chain.invoke(input_dict) raises, and wrap_llm_call raises it again
WrapInvokeRaises ==
    /\ gpc = "w_invoke"
    /\ trace' = Append(trace, "chain.invoke")
    /\ logs' = Append(logs, LogRecord("ERROR", "LLM invocation error", <<>>))
    /\ Completes(Call("wrap_llm_call", frame.input_dict, None, TRUE, None))
    /\ frame' = None
    /\ gpc' = "idle"
    /\ UNCHANGED self
    /\ GuardOnly

\* step 3: validate output, and return
WrapValidateOutput ==
    /\ gpc = "w_validate_output"
    /\ LET content == output_content(frame.response)
           output_result == validate_output(self, content)
       IN  /\ logs' = logs \o validate_output_logs(self, content)
                      \o (IF ~output_result.passed
                          THEN <<LogRecord("ERROR",
                                   "Response blocked at output validation",
                                   <<output_result.message>>)>>
                          ELSE <<>>)
           /\ Completes(Call("wrap_llm_call", frame.input_dict, frame.response,
                            FALSE, wrap_return(frame.response, output_result)))
           /\ self' = validate_output_attrs(self, content)
    /\ trace' = Append(trace, "validate_output")
    /\ frame' = None
    /\ gpc' = "idle"
    /\ GuardOnly

GuardNext ==
    \/ \E user_input \in Inputs : ValidateInput(user_input)
    \/ \E llm_output \in Outputs : ValidateOutput(llm_output)
    \/ \E input_dict \in InputDicts : WrapStart(input_dict)
    \/ WrapValidateInput
    \/ WrapBlockedAtInput
    \/ \E response \in Responses : WrapInvoke(response)
    \/ WrapInvokeRaises
    \/ WrapValidateOutput

(***************************************************************************)
(* Values shared by the scripts.  An optional value is None or Some(v).    *)
(* os.environ is a function of the names that are set.  The file system is *)
(* the set of the paths that exist.  The exit status of a process is <<>>  *)
(* until it exits, then <<status>>.                                        *)
(***************************************************************************)
Some(v) == [some |-> v]

\* the truth value of an optional str: None and "" are false
Truthy(o) == o # None /\ o.some # <<>>

\* os.environ.get(name)
EnvironGet(environ, name) ==
    IF name \in DOMAIN environ THEN Some(environ[name]) ELSE None

\* os.path.exists(path)
PathExists(fs, path) == path \in fs

sys_executable == "/usr/bin/python3"

(***************************************************************************)
(* .github/scripts/lib/mcp.py                                              *)
(***************************************************************************)
\* get_mcp_config(base_dir): the dict it returns, or the FileNotFoundError
get_mcp_config(fs, environ, base_dir) ==
    LET server_dir == base_dir \o "/.github/ai-defense-mcp"
        venv_python == server_dir \o "/.venv/bin/python"
        project_venv == base_dir \o "/.venv/bin/python"
        server_python == IF PathExists(fs, venv_python) THEN venv_python
                         ELSE IF PathExists(fs, project_venv) THEN project_venv
                         ELSE sys_executable
    IN  IF ~PathExists(fs, server_dir)
        THEN [raised |-> TRUE,
              error |-> "AI Defense MCP not found at " \o server_dir]
        ELSE [raised |-> FALSE,
              value |-> [server \in {"ai-defense"} |->
                            [command |-> server_python,
                             args |-> <<"-m", "src.server">>,
                             env |-> [name \in DOMAIN environ \cup {"PYTHONPATH"} |->
                                        IF name = "PYTHONPATH" THEN server_dir
                                        ELSE environ[name]],
                             cwd |-> server_dir]]]

(***************************************************************************)
(* .github/scripts/run_agent.py                                            *)
(***************************************************************************)
\* all available tools
TOOLS_FULL == <<"Read", "Write", "Edit", "Glob", "Grep", "Bash",
                "mcp__ai-defense__start_ai_validation",
                "mcp__ai-defense__setup_ai_defense_guardrails">>

TOOLS_READONLY == <<"Read", "Glob", "Grep", "Bash">>

\* The tools that modify files: Write and Edit, and Bash, with which the
\* system prompt has the agent compile files and run git.
ToolModifiesFiles(tool) == tool \in {"Write", "Edit", "Bash"}

\* The tools that call the MCP server: the mcp__ai-defense__ tools, and Bash,
\* with which scripts/ai_security_check.py has the agent run mcp_wrapper.py.
ToolCallsMcp(tool) ==
    tool \in {"mcp__ai-defense__start_ai_validation",
              "mcp__ai-defense__setup_ai_defense_guardrails", "Bash"}

\* build_user_prompt: the context, the mode and the agent prompt
build_user_prompt(context, agent_prompt, dry_run) ==
    [context |-> context,
     mode |-> IF dry_run THEN "## MODE: DRY RUN" ELSE "",
     agent_prompt |-> agent_prompt]

\* tools = TOOLS_READONLY if dry_run else TOOLS_FULL
agent_tools(dry_run) == IF dry_run THEN TOOLS_READONLY ELSE TOOLS_FULL

\* get_context_summary: the git context, or that it is unavailable
Contexts == {"## Context: repository, branch, commit",
             "## Context: git context unavailable"}

\* the strings str(e) of the exceptions query can raise
QueryErrors == {"", "Control request timeout"}

SummaryText == <<<<"#","#"," ","S","u","m","m","a","r","y">>>>

PrText == <<<<"D","o","n","e",".">>, <<"P","R"," ","U","R","L",":"," ","h","t","t","p","s",":","/","/","x","/","1"," ">>>>

NoUrlText == <<<<"P","R"," ","U","R","L",":"," ","n","o","n","e">>>>

\* A text is the sequence of its lines.  The messages query yields: a
\* message with text blocks, a message with a result and no content, and an
\* object that is no Message.
AgentMessages ==
    {[is_message |-> TRUE, has_content |-> TRUE,
      content |-> <<[has_text |-> TRUE, text |-> SummaryText],
                    [has_text |-> FALSE, text |-> <<>>]>>,
      result |-> None, str |-> <<>>],
     [is_message |-> TRUE, has_content |-> TRUE,
      content |-> <<[has_text |-> TRUE, text |-> PrText],
                    [has_text |-> TRUE, text |-> NoUrlText]>>,
      result |-> None, str |-> <<>>],
     [is_message |-> TRUE, has_content |-> FALSE, content |-> <<>>,
      result |-> Some(SummaryText), str |-> <<>>],
     [is_message |-> FALSE, has_content |-> FALSE, content |-> <<>>,
      result |-> None, str |-> <<<<"i","n","i","t">>>>]}

\* the most messages one query yields
MaxMessages == 2

\* `needle in text`, for a needle without a line break
TextContains(text, needle) ==
    \E n \in DOMAIN text : Contains(text[n], needle)

\* line.split(needle)[-1]
AfterLast(line, needle) ==
    LET at == {i \in 0..(Len(line) - Len(needle)) :
                  \A j \in 1..Len(needle) : line[i + j] = needle[j]}
        i == CHOOSE i \in at : \A k \in at : k <= i
    IN  IF at = {} THEN line ELSE SubSeq(line, i + Len(needle) + 1, Len(line))

\* str.strip()
Strip(s) ==
    LET keep == {i \in DOMAIN s : s[i] \notin Space}
        lo == CHOOSE i \in keep : \A k \in keep : i <= k
        hi == CHOOSE i \in keep : \A k \in keep : k <= i
    IN  IF keep = {} THEN <<>> ELSE SubSeq(s, lo, hi)

\* str.startswith(prefix)
StartsWith(s, prefix) ==
    Len(s) >= Len(prefix) /\ SubSeq(s, 1, Len(prefix)) = prefix

PrUrlMark == <<"P","R"," ","U","R","L",":">>

RECURSIVE PrUrlOf(_, _, _)
\* result["pr_url"] after the lines n.. of text, from pr_url
PrUrlOf(text, n, pr_url) ==
    IF n > Len(text) THEN pr_url
    ELSE LET url == Strip(AfterLast(text[n], PrUrlMark))
         IN  PrUrlOf(text, n + 1,
                     IF Contains(text[n], PrUrlMark) /\ StartsWith(url, <<"h","t","t","p">>)
                     THEN Some(url) ELSE pr_url)

\* result after one text of a message
AfterText(result, text) ==
    [result EXCEPT
        !.messages = Append(@, text),
        !.final_output = IF TextContains(text, <<"#","#"," ","S","u","m","m","a","r","y">>) THEN Some(text) ELSE @,
        !.pr_url = IF TextContains(text, PrUrlMark) THEN PrUrlOf(text, 1, @) ELSE @]

RECURSIVE AfterBlocks(_, _, _)
\* result after the blocks n.. of a message's content
AfterBlocks(result, content, n) ==
    IF n > Len(content) THEN result
    ELSE AfterBlocks(IF content[n].has_text
                     THEN AfterText(result, content[n].text) ELSE result,
                     content, n + 1)

\* result after the body of `async for message in query(...)`
AfterMessage(result, message) ==
    IF message.is_message
    THEN IF message.has_content THEN AfterBlocks(result, message.content, 1)
         ELSE IF message.result # None
         THEN [result EXCEPT !.final_output = message.result]
         ELSE result
    ELSE [result EXCEPT !.messages = Append(@, message.str)]

\* a main without its last line's test of the status
main_exit_code_by_error(result) ==
    IF "error" \in DOMAIN result /\ result.error # "" THEN 1 ELSE 0

\* what main returns for the result of run_agent
main_exit_code(result) ==
    IF "error" \in DOMAIN result /\ result.error # ""
    THEN 1
    ELSE IF result.status = "error" THEN 1 ELSE 0

BaseDir == "/repo"

ServerDir == "/repo/.github/ai-defense-mcp"

AgentFileSystems ==
    {{}, {"/repo/.venv/bin/python"}, {ServerDir},
     {ServerDir, ServerDir \o "/.venv/bin/python"},
     {ServerDir, "/repo/.venv/bin/python"}}

AgentInit ==
    /\ apc = "run_agent"
    /\ aenv \in {EmptyDict} \cup
                {[name \in {"AGENT_PROMPT"} |-> p] :
                    p \in {<<>>, <<"s","c","a","n">>}}
    /\ aargs \in [commit_id : {None, Some("abc1234")}, dry_run : BOOLEAN,
                  output_file : {None, Some("result.json")}]
    /\ afs \in AgentFileSystems
    /\ alocals = None
    /\ asession = None
    /\ aresult = None
    /\ aexit = <<>>
    /\ asteps = <<>>

\* run_agent: agent_prompt = os.environ.get("AGENT_PROMPT")
ReadAgentPrompt ==
    /\ apc = "run_agent"
    /\ LET agent_prompt == EnvironGet(aenv, "AGENT_PROMPT")
       IN  IF ~Truthy(agent_prompt)
           THEN /\ aresult' = [status |-> "error",
                               error |-> "AGENT_PROMPT environment variable is required"]
                /\ apc' = "main"
                /\ UNCHANGED alocals
           ELSE /\ alocals' = [agent_prompt |-> agent_prompt.some]
                /\ apc' = "context"
                /\ UNCHANGED aresult
    /\ UNCHANGED <<aenv, aargs, afs, asession, aexit, asteps>>
    /\ AgentOnly

\* run_agent: context, user_prompt and tools
BuildPrompt(context) ==
    /\ apc = "context"
    /\ alocals' = [agent_prompt |-> alocals.agent_prompt,
                   context |-> context,
                   user_prompt |-> build_user_prompt(context,
                                       alocals.agent_prompt, aargs.dry_run),
                   tools |-> agent_tools(aargs.dry_run)]
    /\ asteps' = Append(asteps, "get_context_summary")
    /\ apc' = "mcp"
    /\ UNCHANGED <<aenv, aargs, afs, asession, aresult, aexit>>
    /\ AgentOnly

\* run_agent: mcp_servers = get_mcp_config(working_dir), and the result dict
ResolveMcp ==
    /\ apc = "mcp"
    /\ asteps' = Append(asteps, "get_mcp_config")
    /\ LET got == get_mcp_config(afs, aenv, BaseDir)
       IN  IF got.raised
           THEN /\ aresult' = [status |-> "error", error |-> got.error]
                /\ apc' = "main"
                /\ UNCHANGED alocals
           ELSE /\ alocals' = [field \in DOMAIN alocals \cup {"mcp_servers"} |->
                                 IF field = "mcp_servers" THEN got.value
                                 ELSE alocals[field]]
                /\ aresult' = [status |-> "running", messages |-> <<>>,
                               final_output |-> None, pr_url |-> None]
                /\ apc' = "query"
    /\ UNCHANGED <<aenv, aargs, afs, asession, aexit>>
    /\ AgentOnly

\* run_agent: the options, and query(prompt=user_prompt, options=options)
StartQuery ==
    /\ apc = "query"
    /\ asession' = [prompt |-> alocals.user_prompt,
                    cwd |-> BaseDir,
                    system_prompt |-> "SYSTEM_PROMPT",
                    allowed_tools |-> alocals.tools,
                    permission_mode |-> "default",
                    mcp_servers |-> alocals.mcp_servers]
    /\ asteps' = Append(asteps, "query")
    /\ apc' = "messages"
    /\ UNCHANGED <<aenv, aargs, afs, alocals, aresult, aexit>>
    /\ AgentOnly

\* run_agent: one message of the query
ReceiveMessage(message) ==
    /\ apc = "messages"
    /\ Len(aresult.messages) < MaxMessages
    /\ aresult' = AfterMessage(aresult, message)
    /\ UNCHANGED <<apc, aenv, aargs, afs, alocals, asession, aexit, asteps>>
    /\ AgentOnly

\* run_agent: the query ends
QueryEnds ==
    /\ apc = "messages"
    /\ aresult' = [aresult EXCEPT !.status = "completed"]
    /\ apc' = "output"
    /\ UNCHANGED <<aenv, aargs, afs, alocals, asession, aexit, asteps>>
    /\ AgentOnly

\* run_agent: the options or the query raise an Exception
QueryRaises(error) ==
    /\ apc \in {"query", "messages"}
    /\ aresult' = [field \in DOMAIN aresult \cup {"error"} |->
                     IF field = "error" THEN error
                     ELSE IF field = "status" THEN "error"
                     ELSE aresult[field]]
    /\ apc' = "output"
    /\ UNCHANGED <<aenv, aargs, afs, alocals, asession, aexit, asteps>>
    /\ AgentOnly

\* run_agent: the output file is written, or there is none
WriteOutput ==
    /\ apc = "output"
    /\ asteps' = IF aargs.output_file # None
                 THEN Append(asteps, "json.dump") ELSE asteps
    /\ apc' = "main"
    /\ UNCHANGED <<aenv, aargs, afs, alocals, asession, aresult, aexit>>
    /\ AgentOnly

\* run_agent: open or json.dump raises; nothing catches it and the
\* interpreter exits with status 1
WriteOutputRaises ==
    /\ apc = "output"
    /\ aargs.output_file # None
    /\ aexit' = <<1>>
    /\ apc' = "crashed"
    /\ UNCHANGED <<aenv, aargs, afs, alocals, asession, aresult, asteps>>
    /\ AgentOnly

\* main: sys.exit with what main returns
AgentMainReturns ==
    /\ apc = "main"
    /\ aexit' = <<main_exit_code(aresult)>>
    /\ apc' = "exited"
    /\ UNCHANGED <<aenv, aargs, afs, alocals, asession, aresult, asteps>>
    /\ AgentOnly

AgentNext ==
    \/ ReadAgentPrompt
    \/ \E context \in Contexts : BuildPrompt(context)
    \/ ResolveMcp
    \/ StartQuery
    \/ \E message \in AgentMessages : ReceiveMessage(message)
    \/ QueryEnds
    \/ \E error \in QueryErrors : QueryRaises(error)
    \/ WriteOutput
    \/ WriteOutputRaises
    \/ AgentMainReturns

(***************************************************************************)
(* .github/scripts/lib/git.py.  The strings are sequences of characters.   *)
(* The local repository is what the git commands print, or None for a      *)
(* command that exits with an error (CalledProcessError); without a git    *)
(* executable subprocess raises FileNotFoundError, which nothing catches.  *)
(***************************************************************************)
Unknown == <<"u","n","k","n","o","w","n">>

GithubCom == <<"g","i","t","h","u","b",".","c","o","m">>

DotGit == <<".","g","i","t">>

True == <<"t","r","u","e">>

\* s[:n]
Prefix(s, n) == SubSeq(s, 1, IF Len(s) < n THEN Len(s) ELSE n)

\* `"/" in s`
HasSlash(s) == \E i \in DOMAIN s : s[i] = "/"

\* s.split("/", 1), for a string with a "/"
SplitSlash(s) ==
    LET at == CHOOSE i \in DOMAIN s : s[i] = "/" /\ \A k \in 1..(i - 1) : s[k] # "/"
    IN  <<SubSeq(s, 1, at - 1), SubSeq(s, at + 1, Len(s))>>

\* The match of github\.com[:/]([^/]+)/([^/.]+?)(?:\.git)?$ that starts at
\* offset i of url, with the text after group 2 one of suffixes: group 1
\* runs to the first "/", group 2 is the longest run without "/" and ".".
RemoteMatchAt(url, i, suffixes) ==
    LET n == Len(url)
        slashes == {j \in (i + 12)..n : url[j] = "/"}
        slash == CHOOSE j \in slashes : \A k \in slashes : j <= k
        stops == {k \in (slash + 1)..n : url[k] \in {"/", "."}}
        stop == IF stops = {} THEN n + 1
                ELSE CHOOSE k \in stops : \A m \in stops : k <= m
    IN  IF /\ i + 11 <= n
           /\ SubSeq(url, i + 1, i + 10) = GithubCom
           /\ url[i + 11] \in {":", "/"}
           /\ slashes # {}
           /\ slash > i + 12
           /\ stop > slash + 1
           /\ SubSeq(url, stop, n) \in suffixes
        THEN Some(<<SubSeq(url, i + 12, slash - 1),
                    SubSeq(url, slash + 1, stop - 1)>>)
        ELSE None

\* re.search of the pattern: the leftmost match, or None
RemoteSearch(url, suffixes) ==
    LET starts == {i \in 0..Len(url) : RemoteMatchAt(url, i, suffixes) # None}
    IN  IF starts = {} THEN None
        ELSE RemoteMatchAt(url, CHOOSE i \in starts : \A k \in starts : i <= k,
                           suffixes)

\* _parse_remote_url: the two patterns in turn
parse_remote_url(url) ==
    LET first == RemoteSearch(url, {<<>>, DotGit})
        second == RemoteSearch(url, {<<>>})
    IN  IF first # None THEN first.some
        ELSE IF second # None THEN second.some
        ELSE <<Unknown, Unknown>>

\* what a resolver gives: the value, or that it raised, and the sources it
\* read on the way
Resolved(value, sources) == [raised |-> FALSE, value |-> value, sources |-> sources]

Raised(sources) == [raised |-> TRUE, sources |-> sources]

\* subprocess.check_output(["git", ...]).strip(), or "unknown"
GitOutput(repo, command, sources) ==
    IF ~repo.installed THEN Raised(sources)
    ELSE IF repo[command] = None THEN Resolved(Unknown, sources)
    ELSE Resolved(Strip(repo[command].some), sources)

resolve_commit_id(environ, repo, explicit_commit) ==
    IF Truthy(explicit_commit)
    THEN Resolved(explicit_commit.some, {"argument"})
    ELSE IF Truthy(EnvironGet(environ, "GITHUB_SHA"))
    THEN Resolved(environ["GITHUB_SHA"], {"argument", "environment"})
    ELSE GitOutput(repo, "head", {"argument", "environment", "git"})

resolve_owner_repo(environ, repo, explicit_owner, explicit_repo) ==
    LET github_repository == EnvironGet(environ, "GITHUB_REPOSITORY")
        remote_url == GitOutput(repo, "origin", {"argument", "environment", "git"})
    IN  IF Truthy(explicit_owner) /\ Truthy(explicit_repo)
        THEN Resolved(<<explicit_owner.some, explicit_repo.some>>, {"argument"})
        ELSE IF Truthy(github_repository) /\ HasSlash(github_repository.some)
        THEN Resolved(SplitSlash(github_repository.some),
                      {"argument", "environment"})
        ELSE IF remote_url.raised THEN remote_url
        ELSE IF repo.origin = None THEN Resolved(<<Unknown, Unknown>>, remote_url.sources)
        ELSE Resolved(parse_remote_url(remote_url.value), remote_url.sources)

resolve_branch(environ, repo) ==
    IF Truthy(EnvironGet(environ, "GITHUB_REF_NAME"))
    THEN Resolved(environ["GITHUB_REF_NAME"], {"environment"})
    ELSE GitOutput(repo, "branch", {"environment", "git"})

\* is_ci of get_git_context
is_ci(environ) ==
    \/ EnvironGet(environ, "CI") = Some(True)
    \/ EnvironGet(environ, "GITHUB_ACTIONS") = Some(True)

\* short_commit = resolved_commit[:7]
short_commit(resolved_commit) == Prefix(resolved_commit, 7)

Sha == <<"0","1","2","3","4","5","6","7","8","9","a","b","c","d","e","f">>

HeadSha == <<"f","e","d","c","b","a","9","8","7","6","5","4","3","2","1","0","\n">>

\* the values each variable of the environment takes when it is set
GitEnvValues ==
    [CI |-> {True}, GITHUB_ACTIONS |-> {True}, GITHUB_SHA |-> {<<>>, Sha},
     GITHUB_REPOSITORY |-> {<<"b","o","b","/","p","r","o","j">>, <<"n","o","s","l","a","s","h">>},
     GITHUB_REF_NAME |-> {<<"m","a","i","n">>}]

GitEnvs ==
    UNION {[names -> UNION {GitEnvValues[n] : n \in names}] :
              names \in SUBSET DOMAIN GitEnvValues}

GitInit ==
    /\ gitpc = "is_ci"
    /\ genv \in {e \in GitEnvs :
                    /\ \A n \in DOMAIN e : e[n] \in GitEnvValues[n]
                    /\ "GITHUB_ACTIONS" \in DOMAIN e => "CI" \in DOMAIN e}
    /\ gargs \in [commit_id : {None, Some(<<"a","b","c">>), Some(<<"a","b","c","1","2","3","4","d","e","f">>)},
                  owner : {None, Some(<<"a","l","i","c","e">>)},
                  repo : {None, Some(<<"a","p","p">>)}]
    /\ grepo \in [installed : BOOLEAN,
                  head : {None, Some(HeadSha)},
                  origin : {None, Some(<<"h","t","t","p","s",":","/","/","g","i","t","h","u","b",".","c","o","m","/","c","a","r","o","l","/","s","i","t","e",".","g","i","t","\n">>), Some(<<"g","i","t","@","g","i","t","l","a","b",".","c","o","m",":","c","a","r","o","l","/","s","i","t","e","\n">>)},
                  branch : {None, Some(<<"d","e","v","\n">>)}]
    /\ gctx = EmptyDict
    /\ gconsulted = {}

\* a field of the GitContext being built
WithField(ctx, field, value) ==
    [f \in DOMAIN ctx \cup {field} |-> IF f = field THEN value ELSE ctx[f]]

\* get_git_context: is_ci
GitIsCi ==
    /\ gitpc = "is_ci"
    /\ gctx' = WithField(gctx, "is_ci", is_ci(genv))
    /\ gitpc' = "commit"
    /\ UNCHANGED <<genv, gargs, grepo, gconsulted>>
    /\ GitOnly

\* get_git_context: resolved_commit and short_commit
GitResolveCommit ==
    /\ gitpc = "commit"
    /\ LET got == resolve_commit_id(genv, grepo, gargs.commit_id)
       IN  /\ gconsulted' = gconsulted \cup {<<"commit_id", s>> : s \in got.sources}
           /\ IF got.raised
              THEN gitpc' = "raised" /\ UNCHANGED gctx
              ELSE /\ gctx' = WithField(WithField(gctx, "commit_id", got.value),
                                        "short_commit_id", short_commit(got.value))
                   /\ gitpc' = "owner_repo"
    /\ UNCHANGED <<genv, gargs, grepo>>
    /\ GitOnly

\* get_git_context: resolved_owner and resolved_repo
GitResolveOwnerRepo ==
    /\ gitpc = "owner_repo"
    /\ LET got == resolve_owner_repo(genv, grepo, gargs.owner, gargs.repo)
       IN  /\ gconsulted' = gconsulted
                  \cup {<<"owner", s>> : s \in got.sources}
                  \cup {<<"repo", s>> : s \in got.sources}
           /\ IF got.raised
              THEN gitpc' = "raised" /\ UNCHANGED gctx
              ELSE /\ gctx' = WithField(WithField(gctx, "owner", got.value[1]),
                                        "repo", got.value[2])
                   /\ gitpc' = "branch"
    /\ UNCHANGED <<genv, gargs, grepo>>
    /\ GitOnly

\* get_git_context: branch, and the GitContext is returned
GitResolveBranch ==
    /\ gitpc = "branch"
    /\ LET got == resolve_branch(genv, grepo)
       IN  /\ gconsulted' = gconsulted \cup {<<"branch", s>> : s \in got.sources}
           /\ IF got.raised
              THEN gitpc' = "raised" /\ UNCHANGED gctx
              ELSE /\ gctx' = WithField(gctx, "branch", got.value)
                   /\ gitpc' = "returned"
    /\ UNCHANGED <<genv, gargs, grepo>>
    /\ GitOnly

GitNext ==
    \/ GitIsCi
    \/ GitResolveCommit
    \/ GitResolveOwnerRepo
    \/ GitResolveBranch

(***************************************************************************)
(* scripts/mcp_wrapper.py                                                  *)
(***************************************************************************)
\* json.loads of the texts given as --args: the value, or JSONDecodeError
json_loads(text) ==
    CASE text = "{\"application_name\": \"app\"}" ->
            [raised |-> FALSE, value |-> [application_name |-> "app"]]
      [] text = "{}" -> [raised |-> FALSE, value |-> EmptyDict]
      [] text = "[1]" -> [raised |-> FALSE, value |-> <<1>>]
      [] text = "{bad" -> [raised |-> TRUE]
      [] text = "" -> [raised |-> TRUE]

ArgsTexts == {"{\"application_name\": \"app\"}", "{}", "[1]", "{bad", ""}

\* what session.call_tool returns: the content and the isError flag
ToolResults == {[content |-> "guardrails ready", isError |-> FALSE],
                [content |-> "unknown tool", isError |-> TRUE]}

\* argparse: both --tool and --args are required
parse_args(argv) ==
    IF argv.tool = None \/ argv.args = None
    THEN [raised |-> TRUE, status |-> 2]
    ELSE [raised |-> FALSE,
          value |-> [tool |-> argv.tool.some, args |-> argv.args.some]]

\* run_tool: server_dir
wrapper_server_dir == "/work/ai-defense-mcp"

\* run_tool: the interpreter of the server
wrapper_server_python(fs) ==
    IF PathExists(fs, wrapper_server_dir \o "/.venv/bin/python")
    THEN wrapper_server_dir \o "/.venv/bin/python"
    ELSE sys_executable

\* the process exits with status: sys.exit(status), or an exception that
\* nothing catches, after which the interpreter exits with status 1
Exits(status, message) ==
    /\ wexit' = <<status>>
    /\ wstderr' = Append(wstderr, message)
    /\ wpc' = "exited"

WrapperInit ==
    /\ wpc = "parse_args"
    /\ wargv \in [tool : {None, Some("setup_ai_defense_guardrails")},
                  args : {None} \cup {Some(t) : t \in ArgsTexts}]
    /\ wfs \in {{}, {wrapper_server_dir},
                {wrapper_server_dir, wrapper_server_dir \o "/.venv/bin/python"}}
    /\ wsteps = <<>>
    /\ wstdout = <<>>
    /\ wstderr = <<>>
    /\ wexit = <<>>

\* main: parser.parse_args()
WrapperParseArgs ==
    /\ wpc = "parse_args"
    /\ LET args == parse_args(wargv)
       IN  IF args.raised
           THEN /\ Exits(args.status, "usage: mcp_wrapper.py")
                /\ UNCHANGED wsteps
           ELSE /\ wpc' = "json.loads"
                /\ wsteps' = Append(wsteps, "parse_args")
                /\ UNCHANGED <<wstderr, wexit>>
    /\ UNCHANGED <<wargv, wfs, wstdout>>
    /\ WrapperOnly

\* main: tool_args = json.loads(args.args)
WrapperLoadArgs ==
    /\ wpc = "json.loads"
    /\ IF json_loads(wargv.args.some).raised
       THEN /\ Exits(1, "Error: --args must be a valid JSON string")
            /\ UNCHANGED wsteps
       ELSE /\ wpc' = "run_tool"
            /\ wsteps' = Append(wsteps, "json.loads")
            /\ UNCHANGED <<wstderr, wexit>>
    /\ UNCHANGED <<wargv, wfs, wstdout>>
    /\ WrapperOnly

\* run_tool: the server directory must exist
WrapperCheckServerDir ==
    /\ wpc = "run_tool"
    /\ IF ~PathExists(wfs, wrapper_server_dir)
       THEN /\ Exits(1, "Error: AI Defense MCP directory not found at "
                        \o wrapper_server_dir)
            /\ UNCHANGED wsteps
       ELSE /\ wpc' = "stdio_client"
            /\ wsteps' = Append(wsteps, "exists")
            /\ UNCHANGED <<wstderr, wexit>>
    /\ UNCHANGED <<wargv, wfs, wstdout>>
    /\ WrapperOnly

\* run_tool: stdio_client starts the server process
WrapperStartServer ==
    /\ wpc = "stdio_client"
    /\ wsteps' = Append(wsteps, "stdio_client " \o wrapper_server_python(wfs))
    /\ wpc' = "initialize"
    /\ UNCHANGED <<wargv, wfs, wstdout, wstderr, wexit>>
    /\ WrapperOnly

\* run_tool: stdio_client raises
WrapperStartServerRaises ==
    /\ wpc = "stdio_client"
    /\ Exits(1, "Traceback: stdio_client")
    /\ UNCHANGED <<wargv, wfs, wsteps, wstdout>>
    /\ WrapperOnly

\* run_tool: await session.initialize()
WrapperInitialize ==
    /\ wpc = "initialize"
    /\ wsteps' = Append(wsteps, "initialize")
    /\ wpc' = "call_tool"
    /\ UNCHANGED <<wargv, wfs, wstdout, wstderr, wexit>>
    /\ WrapperOnly

\* run_tool: session.initialize() raises
WrapperInitializeRaises ==
    /\ wpc = "initialize"
    /\ Exits(1, "Traceback: initialize")
    /\ UNCHANGED <<wargv, wfs, wsteps, wstdout>>
    /\ WrapperOnly

\* run_tool: session.call_tool returns, and its content is printed
WrapperCallTool(result) ==
    /\ wpc = "call_tool"
    /\ wsteps' = Append(wsteps, "call_tool")
    /\ wstdout' = Append(wstdout, result.content)
    /\ wpc' = "close"
    /\ UNCHANGED <<wargv, wfs, wstderr, wexit>>
    /\ WrapperOnly

\* run_tool with an except clause that reports the exception of call_tool
\* and goes on
WrapperCallToolRaisesSwallowed ==
    /\ wpc = "call_tool"
    /\ wsteps' = wsteps \o <<"call_tool", "call_tool raised">>
    /\ wstderr' = Append(wstderr, "Error calling tool " \o wargv.tool.some)
    /\ wpc' = "close"
    /\ UNCHANGED <<wargv, wfs, wstdout, wexit>>
    /\ WrapperOnly

\* run_tool: session.call_tool raises
WrapperCallToolRaises ==
    /\ wpc = "call_tool"
    /\ wsteps' = wsteps \o <<"call_tool", "call_tool raised">>
    /\ Exits(1, "Error calling tool " \o wargv.tool.some)
    /\ UNCHANGED <<wargv, wfs, wstdout>>
    /\ WrapperOnly

\* main returns, and the process exits with status 0
WrapperReturns ==
    /\ wpc = "close"
    /\ wexit' = <<0>>
    /\ wpc' = "exited"
    /\ UNCHANGED <<wargv, wfs, wsteps, wstdout, wstderr>>
    /\ WrapperOnly

WrapperNext ==
    \/ WrapperParseArgs
    \/ WrapperLoadArgs
    \/ WrapperCheckServerDir
    \/ WrapperStartServer
    \/ WrapperStartServerRaises
    \/ WrapperInitialize
    \/ WrapperInitializeRaises
    \/ \E result \in ToolResults : WrapperCallTool(result)
    \/ WrapperCallToolRaises
    \/ WrapperReturns

(***************************************************************************)
(* The specifications: one per program.                                    *)
(***************************************************************************)
GuardOff ==
    /\ self = None /\ gpc = "off" /\ frame = None /\ trace = <<>>
    /\ last = None /\ repeat = FALSE /\ logs = <<>>

AgentOff ==
    /\ apc = "off" /\ aenv = EmptyDict /\ aargs = None /\ afs = {}
    /\ alocals = None /\ asession = None /\ aresult = None
    /\ aexit = <<>> /\ asteps = <<>>

GitOff ==
    /\ gitpc = "off" /\ genv = EmptyDict /\ gargs = None /\ grepo = None
    /\ gctx = EmptyDict /\ gconsulted = {}

WrapperOff ==
    /\ wpc = "off" /\ wargv = None /\ wfs = {} /\ wsteps = <<>>
    /\ wstdout = <<>> /\ wstderr = <<>> /\ wexit = <<>>

\* main.py
Init == GuardInit /\ AgentOff /\ GitOff /\ WrapperOff

Next == GuardNext

Spec == Init /\ [][Next]_vars

\* .github/scripts/run_agent.py
InitAgent == AgentInit /\ GuardOff /\ GitOff /\ WrapperOff

NextAgent == AgentNext

SpecAgent == InitAgent /\ [][NextAgent]_vars

\* .github/scripts/lib/git.py
InitGit == GitInit /\ GuardOff /\ AgentOff /\ WrapperOff

NextGit == GitNext

SpecGit == InitGit /\ [][NextGit]_vars

\* scripts/mcp_wrapper.py
InitWrapper == WrapperInit /\ GuardOff /\ AgentOff /\ GitOff

NextWrapper == WrapperNext

SpecWrapper == InitWrapper /\ [][NextWrapper]_vars

(***************************************************************************)
(* The properties of main.py, checked under Spec.                          *)
(***************************************************************************)
\* the user input of a wrap_llm_call
UserInputOf(input_dict) == DictGet(input_dict, "input", Str(<<>>))

WrapReturned == last # None /\ last.op = "wrap_llm_call" /\ ~last.raised

\* C1: when chain.invoke does not raise, wrap_llm_call returns the chain's
\* response exactly when validate_input of the input and validate_output of
\* the response's content both passed, and None in every other case (the
\* chain was not invoked, or the output did not pass).
C1_ResponseIffAllPass ==
    WrapReturned =>
        LET input_passed == validate_input(self, UserInputOf(last.arg)).passed
        IN  IF last.response = None
            THEN ~input_passed /\ last.ret = None
            ELSE /\ input_passed
                 /\ IF validate_output(self, output_content(last.response)).passed
                    THEN last.ret = last.response
                    ELSE last.ret = None

\* a wrap_llm_call under main's configuration has returned the response
C1_Witness ==
    /\ WrapReturned
    /\ self = Guardrails(TRUE, TRUE, TRUE, TRUE)
    /\ last.arg = [input |-> Hello]
    /\ last.ret = last.response
    /\ last.ret # None

WrapOrder == <<"validate_input", "chain.invoke", "validate_output">>

Invoked == \E i \in DOMAIN trace : trace[i] = "chain.invoke"

\* C2: the steps of one wrap_llm_call are, in this order, validate input,
\* invoke chain, validate output: the chain is invoked at most once, only
\* after validate_input returned passed=True, never when it returned
\* passed=False, and the output is validated only after the chain returned.
C2_StepsInOrder ==
    LET running == gpc \in {"w_validate_input", "w_return_none", "w_invoke",
                            "w_validate_output"}
        done == gpc = "idle" /\ last # None /\ last.op = "wrap_llm_call"
        user_input == IF running THEN frame.user_input ELSE UserInputOf(last.arg)
    IN  (running \/ done) =>
            /\ Len(trace) <= Len(WrapOrder)
            /\ \A i \in DOMAIN trace : trace[i] = WrapOrder[i]
            /\ Invoked => validate_input(self, user_input).passed
            /\ gpc = "w_invoke" => trace = <<"validate_input">>
            /\ gpc = "w_validate_output" => frame.response # None
            /\ (done /\ Len(trace) = 3) => last.response # None

\* a wrap_llm_call has taken the three steps, and one in strict mode has
\* stopped after the first
C2_Witness ==
    /\ gpc = "idle" /\ last # None /\ last.op = "wrap_llm_call"
    /\ self.strict_mode
    /\ trace = <<"validate_input">>
    /\ last.arg = [input |-> IgnoreAll]

IsValidate == last # None /\ last.op \in {"validate_input", "validate_output"}

\* whether the validation of the most recent validate_ call is enabled
ValidationEnabled ==
    IF last.op = "validate_input" THEN self.enable_input_validation
    ELSE self.enable_output_validation

\* the violations its argument has
ViolationsOfLast ==
    IF last.op = "validate_input" THEN InputViolations(last.arg)
    ELSE OutputViolations(last.arg)

\* C3: for validate_input and validate_output with the validation enabled:
\* a detected violation yields passed=False and BLOCK if strict_mode is
\* True, and passed=True and LOG if it is False; no violation yields
\* passed=True and ALLOW in both modes.
C3_StrictModeDecides ==
    (IsValidate /\ ValidationEnabled) =>
        IF ViolationsOfLast # <<>>
        THEN /\ last.ret.violations = ViolationsOfLast
             /\ IF self.strict_mode
                THEN ~last.ret.passed /\ last.ret.action = BLOCK
                ELSE last.ret.passed /\ last.ret.action = LOG
        ELSE last.ret.passed /\ last.ret.action = ALLOW

\* validate_output has blocked an e-mail address in strict mode
C3_Witness ==
    /\ IsValidate /\ last.op = "validate_output" /\ last.arg = Email
    /\ self.strict_mode /\ self.enable_output_validation
    /\ last.ret.action = BLOCK
    /\ Len(last.ret.violations) = 1

\* C4: with enable_input_validation False validate_input returns
\* passed=True, ALLOW and no violations for every input, whatever
\* strict_mode is and whatever the input holds; likewise validate_output
\* with enable_output_validation False.
C4_DisabledAllows ==
    (IsValidate /\ ~ValidationEnabled) =>
        /\ last.ret.passed
        /\ last.ret.action = ALLOW
        /\ last.ret.violations = NoViolations

\* validate_input, disabled and in strict mode, has allowed an over-long
\* input that holds an injection pattern
C4_Witness ==
    /\ IsValidate /\ last.op = "validate_input" /\ last.arg = TooLong
    /\ ~self.enable_input_validation /\ self.strict_mode
    /\ Len(InputViolations(last.arg)) = 2
    /\ last.ret.action = ALLOW

\* C5: the guardrails keep no state: no call changes an attribute of the
\* object, and a call that repeats the call before it (the same method, the
\* same argument, the same response of the chain) returns the same.
C5_NoPersistentState ==
    [][/\ self' = self
       /\ repeat' => last'.ret = last.ret]_vars

\* a validate_input that found violations has been repeated
C5_Witness ==
    /\ repeat /\ last.op = "validate_input" /\ last.arg = IgnoreAll
    /\ self.enable_input_validation /\ ~self.strict_mode
    /\ last.ret.action = LOG

(***************************************************************************)
(* The properties of run_agent.py, checked under SpecAgent.                *)
(***************************************************************************)
AllowedTools ==
    {asession.allowed_tools[i] : i \in DOMAIN asession.allowed_tools}

\* C6: in dry-run mode the agent only analyses: the allowed_tools handed to
\* the session hold none of Write, Edit and the two mcp__ai-defense__ tools,
\* and the session is handed no capability to modify files or to call MCP.
C6_DryRunAnalysesOnly ==
    (asession # None /\ aargs.dry_run) =>
        /\ AllowedTools \cap {"Write", "Edit",
                              "mcp__ai-defense__start_ai_validation",
                              "mcp__ai-defense__setup_ai_defense_guardrails"} = {}
        /\ \A tool \in AllowedTools : ~ToolModifiesFiles(tool) /\ ~ToolCallsMcp(tool)
        /\ DOMAIN asession.mcp_servers = {}

PromptMissing == ~Truthy(EnvironGet(aenv, "AGENT_PROMPT"))

RunCompleted == aresult.status = "completed" /\ "error" \notin DOMAIN aresult

\* C7: with AGENT_PROMPT unset or empty run_agent returns status "error"
\* with an error message, resolves no MCP configuration and starts no
\* query, and main returns 1; main returns 0 only when the run ended with
\* status "completed" and no error field, and 1 otherwise.
C7_PromptRequired ==
    /\ (PromptMissing /\ apc \in {"main", "exited"}) =>
            /\ aresult.status = "error"
            /\ "error" \in DOMAIN aresult /\ aresult.error # ""
            /\ asteps = <<>>
            /\ asession = None
            /\ apc = "exited" => aexit = <<1>>
    /\ PromptMissing => apc \in {"run_agent", "main", "exited"}
    /\ apc = "exited" =>
            /\ aexit \in {<<0>>, <<1>>}
            /\ aexit = <<0>> <=> RunCompleted

\* main has returned 1 for an AGENT_PROMPT that is set and empty
C7_Witness ==
    /\ apc = "exited" /\ aexit = <<1>>
    /\ "AGENT_PROMPT" \in DOMAIN aenv /\ aenv["AGENT_PROMPT"] = <<>>
    /\ ServerDir \in afs

(***************************************************************************)
(* The properties of lib/git.py, checked under SpecGit.                    *)
(***************************************************************************)
\* the sources of a field, from the highest priority to the lowest
SourcesOf(field) ==
    IF field = "branch" THEN <<"environment", "git">>
    ELSE <<"argument", "environment", "git">>

\* whether a source has a value for a field
Present(field, source) ==
    CASE source = "argument" ->
            Truthy(IF field = "commit_id" THEN gargs.commit_id
                   ELSE IF field = "owner" THEN gargs.owner ELSE gargs.repo)
      [] source = "environment" ->
            IF field = "commit_id" THEN Truthy(EnvironGet(genv, "GITHUB_SHA"))
            ELSE IF field = "branch" THEN Truthy(EnvironGet(genv, "GITHUB_REF_NAME"))
            ELSE /\ Truthy(EnvironGet(genv, "GITHUB_REPOSITORY"))
                 /\ HasSlash(genv["GITHUB_REPOSITORY"])
      [] source = "git" -> TRUE

\* C8: get_git_context resolves each field by the priority order explicit
\* argument, environment variable, git command: a lower-priority source is
\* consulted only when every higher-priority source for that field is
\* absent, an explicit commit_id, owner or repo wins over the environment,
\* a failing git command gives "unknown", and short_commit_id is the first
\* 7 characters of commit_id.
C8_PriorityOrder ==
    /\ \A c \in gconsulted :
          LET order == SourcesOf(c[1])
          IN  \A i, j \in DOMAIN order :
                 (i < j /\ order[j] = c[2]) => ~Present(c[1], order[i])
    /\ ("commit_id" \in DOMAIN gctx /\ Present("commit_id", "argument")) =>
          gctx.commit_id = gargs.commit_id.some
    /\ ("owner" \in DOMAIN gctx /\ Present("owner", "argument")) =>
          gctx.owner = gargs.owner.some
    /\ ("repo" \in DOMAIN gctx /\ Present("repo", "argument")) =>
          gctx.repo = gargs.repo.some
    /\ ("commit_id" \in DOMAIN gctx /\ <<"commit_id", "git">> \in gconsulted
            /\ grepo.head = None) => gctx.commit_id = Unknown
    /\ ("owner" \in DOMAIN gctx /\ <<"owner", "git">> \in gconsulted
            /\ grepo.origin = None) => gctx.owner = Unknown /\ gctx.repo = Unknown
    /\ ("branch" \in DOMAIN gctx /\ <<"branch", "git">> \in gconsulted
            /\ grepo.branch = None) => gctx.branch = Unknown
    /\ "short_commit_id" \in DOMAIN gctx =>
          gctx.short_commit_id = Prefix(gctx.commit_id, 7)

(***************************************************************************)
(* The properties of scripts/mcp_wrapper.py, checked under SpecWrapper.    *)
(***************************************************************************)
Exited == wpc = "exited"

\* the positions of a step in wsteps
StepsAt(step) == {i \in DOMAIN wsteps : wsteps[i] = step}

ServerStarted ==
    StepsAt("stdio_client " \o wrapper_server_python(wfs)) # {}

UsageError == wargv.tool = None \/ wargv.args = None

InvalidJson == ~UsageError /\ wargv.args.some \in {"{bad", ""}

DirMissing == wrapper_server_dir \notin wfs

CallToolRaised == StepsAt("call_tool raised") # {}

\* what holds of the steps whatever the exit status is: invalid JSON and a
\* missing directory end the run with status 1 before the server is
\* started, call_tool comes straight after initialize, and a raising
\* call_tool ends the run with status 1 and an empty stdout
EarliestStep ==
    /\ (Exited /\ InvalidJson) => wexit = <<1>> /\ ~ServerStarted
    /\ (Exited /\ ~UsageError /\ ~InvalidJson /\ DirMissing) =>
          wexit = <<1>> /\ ~ServerStarted
    /\ \A i \in StepsAt("call_tool") : i > 1 /\ wsteps[i - 1] = "initialize"
    /\ (Exited /\ CallToolRaised) => wexit = <<1>> /\ wstdout = <<>>

====
